---- MODULE Spec2Model ----
(***************************************************************************)
(* lambda_handler of web-scrapping/app.py: one request is parsed,          *)
(* validated, its links scraped and filtered, every kept page scraped and  *)
(* aggregated, three LLM prompts issued in sequence, and one response      *)
(* returned.                                                               *)
(*                                                                         *)
(* Text is a sequence of chunks.  Data that varies (URLs, markdown, LLM    *)
(* output) has one chunk per character; the fixed literals of the source   *)
(* are single chunks.  JSON text is a sequence of lexical tokens.          *)
(***************************************************************************)
EXTENDS Integers, Sequences, FiniteSets, TLC

\* Longest list of links the scraping service returns in the model.
MaxLinks == 3

-----------------------------------------------------------------------------
(* Python values that come out of json.loads / go into json.dumps.         *)

PyNone == [kind |-> "null", v |-> <<>>, items |-> <<>>]
PyStr(s) == [kind |-> "str", v |-> s, items |-> <<>>]
PyNum(d) == [kind |-> "num", v |-> d, items |-> <<>>]
PyBool(b) == [kind |-> "bool", v |-> b, items |-> <<>>]
PyList(xs) == [kind |-> "list", v |-> <<>>, items |-> xs]
PyDict(ps) == [kind |-> "dict", v |-> <<>>, items |-> ps]
Pair(k, val) == [key |-> k, val |-> val]

\* Truthy as `website is not None` would have it.
TruthyNotNone(x) == x.kind # "null"

\* Python truthiness, as used by `if not website`.
Truthy(x) ==
    CASE x.kind = "null" -> FALSE
      [] x.kind = "bool" -> x.v = <<"true">>
      [] x.kind = "num"  -> x.v # <<"0">>
      [] x.kind = "str"  -> x.v # <<>>
      [] OTHER           -> x.items # <<>>

\* dict.get(key): the value stored under key (the last one json.loads saw),
\* or None.
RECURSIVE DictGet(_, _)
DictGet(ps, k) ==
    IF ps = <<>> THEN PyNone
    ELSE IF ps[Len(ps)].key = k THEN ps[Len(ps)].val
    ELSE DictGet(SubSeq(ps, 1, Len(ps) - 1), k)

\* The distinct keys of a dict.
Keys(d) == {d.items[n].key : n \in 1..Len(d.items)}

-----------------------------------------------------------------------------
(* JSON text: tokens.                                                      *)

Tok(t) == [t |-> t, v |-> <<>>]
StrTok(s) == [t |-> "str", v |-> s]
NumTok(d) == [t |-> "num", v |-> d]

Tail2(s, n) == SubSeq(s, n + 1, Len(s))

Fail(msg) == [exc |-> msg, val |-> PyNone, rest |-> <<>>]
Done(val, rest) == [exc |-> "", val |-> val, rest |-> rest]

RECURSIVE ParseValue(_), ParseMembers(_, _), ParseElements(_, _)
\* One JSON value at the head of s.
ParseValue(s) ==
    IF s = <<>> THEN Fail("Expecting value")
    ELSE CASE s[1].t = "null"  -> Done(PyNone, Tail2(s, 1))
           [] s[1].t = "true"  -> Done(PyBool(<<"true">>), Tail2(s, 1))
           [] s[1].t = "false" -> Done(PyBool(<<"false">>), Tail2(s, 1))
           [] s[1].t = "num"   -> Done(PyNum(s[1].v), Tail2(s, 1))
           [] s[1].t = "str"   -> Done(PyStr(s[1].v), Tail2(s, 1))
           [] s[1].t = "["     ->
                IF Len(s) >= 2 /\ s[2].t = "]"
                THEN Done(PyList(<<>>), Tail2(s, 2))
                ELSE ParseElements(Tail2(s, 1), <<>>)
           [] s[1].t = "{"     ->
                IF Len(s) >= 2 /\ s[2].t = "}"
                THEN Done(PyDict(<<>>), Tail2(s, 2))
                ELSE ParseMembers(Tail2(s, 1), <<>>)
           [] OTHER            -> Fail("Expecting value")

\* The members of an object, s being what follows "{" or ",".
ParseMembers(s, acc) ==
    IF s = <<>> \/ s[1].t # "str"
    THEN Fail("Expecting property name enclosed in double quotes")
    ELSE IF Len(s) < 2 \/ s[2].t # ":"
    THEN Fail("Expecting ':' delimiter")
    ELSE LET r == ParseValue(Tail2(s, 2))
         IN IF r.exc # "" THEN r
            ELSE LET acc2 == Append(acc, Pair(s[1].v, r.val))
                 IN IF r.rest # <<>> /\ r.rest[1].t = "}"
                    THEN Done(PyDict(acc2), Tail2(r.rest, 1))
                    ELSE IF r.rest # <<>> /\ r.rest[1].t = ","
                    THEN ParseMembers(Tail2(r.rest, 1), acc2)
                    ELSE Fail("Expecting ',' delimiter")

\* The elements of an array, s being what follows "[" or ",".
ParseElements(s, acc) ==
    LET r == ParseValue(s)
    IN IF r.exc # "" THEN r
       ELSE LET acc2 == Append(acc, r.val)
            IN IF r.rest # <<>> /\ r.rest[1].t = "]"
               THEN Done(PyList(acc2), Tail2(r.rest, 1))
               ELSE IF r.rest # <<>> /\ r.rest[1].t = ","
               THEN ParseElements(Tail2(r.rest, 1), acc2)
               ELSE Fail("Expecting ',' delimiter")

\* json.loads(text): the value, or the JSONDecodeError message.
JsonLoads(text) ==
    LET r == ParseValue(text)
    IN IF r.exc # "" THEN [exc |-> r.exc, val |-> PyNone]
       ELSE IF r.rest # <<>> THEN [exc |-> "Extra data", val |-> PyNone]
       ELSE [exc |-> "", val |-> r.val]

RECURSIVE DumpValue(_), DumpMembers(_), DumpElements(_)
\* json.dumps(x): the JSON text of a value.
DumpValue(x) ==
    CASE x.kind = "null" -> <<Tok("null")>>
      [] x.kind = "bool" -> <<Tok(x.v[1])>>
      [] x.kind = "num"  -> <<NumTok(x.v)>>
      [] x.kind = "str"  -> <<StrTok(x.v)>>
      [] x.kind = "list" -> <<Tok("[")>> \o DumpElements(x.items) \o <<Tok("]")>>
      [] OTHER           -> <<Tok("{")>> \o DumpMembers(x.items) \o <<Tok("}")>>

DumpMembers(ps) ==
    IF ps = <<>> THEN <<>>
    ELSE <<StrTok(ps[1].key), Tok(":")>> \o DumpValue(ps[1].val)
         \o (IF Len(ps) > 1 THEN <<Tok(",")>> ELSE <<>>)
         \o DumpMembers(Tail(ps))

DumpElements(xs) ==
    IF xs = <<>> THEN <<>>
    ELSE DumpValue(xs[1])
         \o (IF Len(xs) > 1 THEN <<Tok(",")>> ELSE <<>>)
         \o DumpElements(Tail(xs))

JsonDumps(x) == DumpValue(x)

-----------------------------------------------------------------------------
(* Text operations.                                                        *)

\* StartsWith with receiver and argument exchanged.
StartsWithSwapped(link, root) ==
    /\ Len(link) <= Len(root)
    /\ \A n \in 1..Len(link) : root[n] = link[n]

\* link.startswith(root): plain textual prefix test.
StartsWith(link, root) ==
    /\ Len(root) <= Len(link)
    /\ \A n \in 1..Len(root) : link[n] = root[n]

\* [link for link in links if link.startswith(website)]
RECURSIVE FilterLinks(_, _)
FilterLinks(ls, root) ==
    IF ls = <<>> THEN <<>>
    ELSE (IF StartsWith(ls[1], root) THEN <<ls[1]>> ELSE <<>>)
         \o FilterLinks(Tail(ls), root)

Whitespace == {" ", "\t", "\n", "\r"}

RECURSIVE LStrip(_), RStrip(_)
LStrip(s) ==
    IF s # <<>> /\ s[1] \in Whitespace THEN LStrip(Tail(s)) ELSE s
RStrip(s) ==
    IF s # <<>> /\ s[Len(s)] \in Whitespace
    THEN RStrip(SubSeq(s, 1, Len(s) - 1)) ELSE s

\* str.strip(): leading and trailing whitespace removed, inner kept.
Strip(s) == RStrip(LStrip(s))

\* result.data.markdown or ""
PageContent(md) == IF md.isNone \/ md.s = <<>> THEN <<>> ELSE md.s

PageHeaderOpen == "\n\n--- Page: "
PageHeaderClose == " ---\n"

\* Section leaving out the page that has no content.
SectionSkipEmpty(link, page_content) ==
    IF page_content = <<>> THEN <<>>
    ELSE <<PageHeaderOpen>> \o link \o <<PageHeaderClose>> \o page_content

\* f"\n\n--- Page: {link} ---\n{page_content}"
Section(link, page_content) ==
    <<PageHeaderOpen>> \o link \o <<PageHeaderClose>> \o page_content

StructuringTemplate == "You are an expert information architect.\nConvert the unstructured data below into structured information.\nDo not remove any information, just present it in a structured format.\n\n"

RelevancyHead == "You are an expert business and marketing analyst specializing in B2B strategy.\nReview the following structured company information:\n"

RelevancyTail == "\n\nExtract only the information that is highly relevant for developing a B2B marketing strategy.\nDiscard irrelevant or redundant details.\n\nReturn the answer in the exact format below:\n\nObjective:\nMission:\nVision:\nBusiness Concept:\nTarget Market:\nValue Proposition:\nBusiness Name:\nProducts or Services they offer:\nWho they currently sell to:\nTop Business Goals:\nChallenges:\n"

FinalizedHead == "You are a professional business document formatter.\nTake the following input data:\n"

FinalizedTail == "\n\nRemove any content between <think> and </think>.\nPresent the information in a clean, professional document format.\n\nRequired headings (exactly as written, in this order):\nObjective:\nMission:\nVision:\nBusiness Concept:\nTarget Market:\nValue Proposition:\nBusiness Name:\nProducts or Services they offer:\nWho they currently sell to:\nTop Business Goals:\nChallenges:\n\nNotes:\n- Include only these headings and their corresponding information.\n- If no information is available for a heading, write 'Not specified'.\n- Do not use symbols like #, **, or bullet points.\n- Do not add any extra commentary outside the headings.\n- Maintain proper spacing and readability."

PromptStructuring(content) == <<StructuringTemplate>> \o content
PromptRelevancy(info) == <<RelevancyHead>> \o info \o <<RelevancyTail>>
PromptFinalized(info) == <<FinalizedHead>> \o info \o <<FinalizedTail>>

-----------------------------------------------------------------------------
(* Responses.                                                              *)

MissingWebsite == <<"Missing 'website' in request body">>

Response(status, body) ==
    [statusCode |-> status,
     headers |-> "Content-Type: application/json",
     body |-> JsonDumps(body)]

MissingResponse ==
    Response(400, PyDict(<<Pair(<<"error">>, PyStr(MissingWebsite))>>))

\* SuccessResponse carrying an empty 'error' next to the result.
SuccessResponseWithError(output) ==
    Response(200, PyDict(<<Pair(<<"structured_info">>, PyStr(output)),
                           Pair(<<"error">>, PyNone)>>))

SuccessResponse(output) ==
    Response(200, PyDict(<<Pair(<<"structured_info">>, PyStr(output))>>))

\* ErrorResponse hiding the text of the exception.
ErrorResponseGeneric(msg) ==
    Response(500, PyDict(<<Pair(<<"error">>,
                                PyStr(<<"Internal Server Error">>))>>))

ErrorResponse(msg) ==
    Response(500, PyDict(<<Pair(<<"error">>, PyStr(msg))>>))

-----------------------------------------------------------------------------
(* Requests and the outcomes of the outbound services.                     *)

WebsiteKey == <<"website">>
Obj(members) == <<Tok("{")>> \o members \o <<Tok("}")>>
Member(k, valueToks) == <<StrTok(k), Tok(":")>> \o valueToks

Bodies ==
    { Obj(Member(WebsiteKey, <<StrTok(<<"a">>)>>)),
      Obj(Member(WebsiteKey, <<StrTok(<<"a", "/">>)>>)),
      Obj(Member(WebsiteKey, <<StrTok(<<>>)>>)),
      Obj(Member(WebsiteKey, <<Tok("null")>>)),
      Obj(<<>>),
      Obj(Member(<<"url">>, <<StrTok(<<"a">>)>>)),
      Obj(Member(WebsiteKey, <<StrTok(<<"a">>)>>) \o <<Tok(",")>>
          \o Member(WebsiteKey, <<Tok("null")>>)),
      Obj(Member(WebsiteKey, <<NumTok(<<"5">>)>>)),
      Obj(Member(WebsiteKey, <<Tok("[")>> \o <<Tok("]")>>)),
      <<>>,
      <<Tok("{"), StrTok(WebsiteKey)>>,
      <<Tok("{"), StrTok(WebsiteKey), Tok(":"), StrTok(<<"a">>)>>,
      <<Tok("{"), Tok("}"), Tok("}")>>,
      <<Tok("["), Tok("]")>>,
      <<StrTok(<<"a">>)>>,
      <<Tok("null")>> }

\* An API Gateway event: with or without a "body" entry, which may be None.
Events ==
    {[hasBody |-> FALSE, isNone |-> FALSE, text |-> <<>>],
     [hasBody |-> TRUE, isNone |-> TRUE, text |-> <<>>]}
    \cup {[hasBody |-> TRUE, isNone |-> FALSE, text |-> b] : b \in Bodies}

NoEvent == [hasBody |-> FALSE, isNone |-> TRUE, text |-> <<>>]

LinkPool == {<<"a">>, <<"a", "/", "x">>, <<"b", "/", "x">>, <<"a", "b">>}

SeqsUpTo(S, n) == UNION {[1..k -> S] : k \in 0..n}

Raised(msg) ==
    [raised |-> TRUE, err |-> msg, isNone |-> FALSE, s |-> <<>>, links |-> <<>>]
Returned(isNone, s, ls) ==
    [raised |-> FALSE, err |-> <<>>, isNone |-> isNone, s |-> s, links |-> ls]

\* What client_scraper.scrape.start_and_wait(...).data.links can be.
LinkOutcomes ==
    {Raised(<<"scrape job failed">>), Returned(TRUE, <<>>, <<>>)}
    \cup {Returned(FALSE, <<>>, ls) : ls \in SeqsUpTo(LinkPool, MaxLinks)}

\* What client_scraper.scrape.start_and_wait(...).data.markdown can be.
PageOutcomes ==
    {Raised(<<"scrape job failed">>), Returned(TRUE, <<>>, <<>>),
     Returned(FALSE, <<>>, <<>>), Returned(FALSE, <<"m", "\n">>, <<>>)}

\* What client.chat.completions.create(...).choices[0].message.content can be.
LlmOutcomes ==
    {Raised(<<"inference failed">>), Returned(TRUE, <<>>, <<>>),
     Returned(FALSE, <<" ", "s", " ", "t", "\n">>, <<>>),
     Returned(FALSE, <<"\n">>, <<>>)}

-----------------------------------------------------------------------------
(* The state of one invocation of lambda_handler.                          *)

VARIABLES
    pc,               \* where the handler is
    event,            \* the event it was invoked with
    website,          \* body.get("website")
    links,            \* the filtered links
    idx,              \* position of the for loop in links
    all_content,      \* the aggregated content
    structured_info,  \* output of the structuring call
    relevant_info,    \* output of the relevancy call
    finalized_output, \* output of the finalization call
    responses,        \* the responses returned so far
    calls,            \* the outbound calls issued so far, with their outcomes
    visited           \* the handler positions passed, in order

vars == <<pc, event, website, links, idx, all_content, structured_info,
          relevant_info, finalized_output, responses, calls, visited>>

locals == <<website, links, idx, all_content, structured_info,
            relevant_info, finalized_output>>

Call(fn, arg, outcome) == [fn |-> fn, arg |-> arg, out |-> outcome]

Init ==
    /\ pc = "IDLE"
    /\ event = NoEvent
    /\ website = PyNone
    /\ links = <<>>
    /\ idx = 1
    /\ all_content = <<>>
    /\ structured_info = <<>>
    /\ relevant_info = <<>>
    /\ finalized_output = <<>>
    /\ responses = <<>>
    /\ calls = <<>>
    /\ visited = <<>>

\* Control moves to position p.
Goto(p) ==
    /\ pc' = p
    /\ visited' = Append(visited, p)

\* `return r` from the handler at terminal position p.
Return(p, r) ==
    /\ Goto(p)
    /\ responses' = Append(responses, r)

\* The `except Exception as e` clause, msg being str(e).
Except(msg) == Return("ERROR_RESPONDED", ErrorResponse(msg))

\* event.get("body", "{}")
EventBody(e) ==
    IF e.hasBody THEN [isNone |-> e.isNone, text |-> e.text]
    ELSE [isNone |-> FALSE, text |-> Obj(<<>>)]

TypeName(x) ==
    CASE x.kind = "null" -> "NoneType"
      [] x.kind = "bool" -> "bool"
      [] x.kind = "num"  -> "int"
      [] x.kind = "str"  -> "str"
      [] x.kind = "list" -> "list"
      [] OTHER           -> "dict"

\* The platform invokes lambda_handler(event, context).
Invoke(e) ==
    /\ pc = "IDLE"
    /\ event' = e
    /\ Goto("RECEIVED")
    /\ UNCHANGED <<locals, responses, calls>>

\* ParseRequest answering text that is not JSON like a missing field.
ParseRequestLenient ==
    /\ pc = "RECEIVED"
    /\ LET b == EventBody(event)
           r == JsonLoads(b.text)
           w == DictGet(r.val.items, WebsiteKey)
       IN IF b.isNone
          THEN /\ Except(<<"the JSON object must be str, bytes or bytearray, not NoneType">>)
               /\ UNCHANGED locals
          ELSE IF r.exc # ""
          THEN /\ Return("REJECTED", MissingResponse)
               /\ UNCHANGED locals
          ELSE IF r.val.kind # "dict"
          THEN /\ Except(<<"'", TypeName(r.val), "' object has no attribute 'get'">>)
               /\ UNCHANGED locals
          ELSE IF ~Truthy(w)
          THEN /\ Return("REJECTED", MissingResponse)
               /\ website' = w
               /\ UNCHANGED <<links, idx, all_content, structured_info,
                              relevant_info, finalized_output>>
          ELSE /\ Goto("VALIDATED")
               /\ website' = w
               /\ UNCHANGED <<links, idx, all_content, structured_info,
                              relevant_info, finalized_output, responses>>
    /\ UNCHANGED <<event, calls>>

\* Lines 61-69: parse the body, read and validate 'website'.
ParseRequest ==
    /\ pc = "RECEIVED"
    /\ LET b == EventBody(event)
           r == JsonLoads(b.text)
           w == DictGet(r.val.items, WebsiteKey)
       IN IF b.isNone
          THEN /\ Except(<<"the JSON object must be str, bytes or bytearray, not NoneType">>)
               /\ UNCHANGED locals
          ELSE IF r.exc # ""
          THEN /\ Except(<<r.exc>>)
               /\ UNCHANGED locals
          ELSE IF r.val.kind # "dict"
          THEN /\ Except(<<"'", TypeName(r.val), "' object has no attribute 'get'">>)
               /\ UNCHANGED locals
          ELSE IF ~Truthy(w)
          THEN /\ Return("REJECTED", MissingResponse)
               /\ website' = w
               /\ UNCHANGED <<links, idx, all_content, structured_info,
                              relevant_info, finalized_output>>
          ELSE /\ Goto("VALIDATED")
               /\ website' = w
               /\ UNCHANGED <<links, idx, all_content, structured_info,
                              relevant_info, finalized_output, responses>>
    /\ UNCHANGED <<event, calls>>

\* Lines 72-76: scrape the links of the website, keep those under it, and
\* start the aggregation.
ScrapeLinks ==
    /\ pc = "VALIDATED"
    /\ \E o \in LinkOutcomes :
        /\ calls' = Append(calls, Call("scrape_links", website, o))
        /\ IF o.raised
           THEN /\ Except(o.err)
                /\ UNCHANGED locals
           ELSE IF o.isNone
           THEN /\ Except(<<"'NoneType' object is not iterable">>)
                /\ UNCHANGED locals
           ELSE IF website.kind # "str" /\ o.links # <<>>
           THEN /\ Except(<<"startswith first arg must be str or a tuple of str, not ",
                            TypeName(website)>>)
                /\ UNCHANGED locals
           ELSE /\ Goto("LINKS_SCRAPED")
                /\ links' = (IF website.kind = "str"
                             THEN FilterLinks(o.links, website.v) ELSE <<>>)
                /\ all_content' = <<>>
                /\ idx' = 1
                /\ UNCHANGED <<website, structured_info, relevant_info,
                               finalized_output, responses>>
    /\ UNCHANGED event

\* ScrapePage with the failure of one page caught inside the loop.
ScrapePageSkipFailed ==
    /\ pc = "LINKS_SCRAPED"
    /\ idx <= Len(links)
    /\ \E o \in PageOutcomes :
        /\ calls' = Append(calls, Call("scrape_page_content", links[idx], o))
        /\ all_content' = (IF o.raised THEN all_content
                           ELSE all_content \o Section(links[idx], PageContent(o)))
        /\ idx' = idx + 1
        /\ UNCHANGED <<pc, visited, website, links, structured_info,
                       relevant_info, finalized_output, responses>>
    /\ UNCHANGED event

\* Lines 77-79, one iteration: scrape the next link and append its section.
ScrapePage ==
    /\ pc = "LINKS_SCRAPED"
    /\ idx <= Len(links)
    /\ \E o \in PageOutcomes :
        /\ calls' = Append(calls, Call("scrape_page_content", links[idx], o))
        /\ IF o.raised
           THEN /\ Except(o.err)
                /\ UNCHANGED locals
           ELSE /\ all_content' = all_content \o Section(links[idx], PageContent(o))
                /\ idx' = idx + 1
                /\ UNCHANGED <<pc, visited, website, links, structured_info,
                               relevant_info, finalized_output, responses>>
    /\ UNCHANGED event

\* ContentScraped leaving the loop before its last link.
ContentScrapedEarly ==
    /\ pc = "LINKS_SCRAPED"
    /\ Goto("CONTENT_SCRAPED")
    /\ UNCHANGED <<event, locals, responses, calls>>

\* Line 77, the loop is exhausted: the content of every link is aggregated.
ContentScraped ==
    /\ pc = "LINKS_SCRAPED"
    /\ idx > Len(links)
    /\ Goto("CONTENT_SCRAPED")
    /\ UNCHANGED <<event, locals, responses, calls>>

\* LlmCalling keeping the content as the model wrote it.
LlmCallingNoStrip(prompt, o, next, result, others) ==
    /\ calls' = Append(calls, Call("llm_calling", prompt, o))
    /\ IF o.raised
       THEN /\ Except(o.err)
            /\ UNCHANGED <<result, others>>
       ELSE IF o.isNone
       THEN /\ Except(<<"'NoneType' object has no attribute 'strip'">>)
            /\ UNCHANGED <<result, others>>
       ELSE /\ Goto(next)
            /\ result' = o.s
            /\ UNCHANGED <<others, responses>>

\* LlmCalling trying a failed prompt a second time.
LlmCallingRetryOnce(prompt, o, next, result, others) ==
    /\ calls' = Append(calls, Call("llm_calling", prompt, o))
    /\ IF o.raised /\ calls # <<>> /\ calls[Len(calls)].out.raised
       THEN /\ Except(o.err)
            /\ UNCHANGED <<result, others>>
       ELSE IF o.raised
       THEN UNCHANGED <<pc, visited, responses, result, others>>
       ELSE IF o.isNone
       THEN /\ Except(<<"'NoneType' object has no attribute 'strip'">>)
            /\ UNCHANGED <<result, others>>
       ELSE /\ Goto(next)
            /\ result' = Strip(o.s)
            /\ UNCHANGED <<others, responses>>

\* llm_calling(prompt) with outcome o: the call is recorded; the stripped
\* content is kept in result' and control moves to next, or the exception
\* is answered.
LlmCalling(prompt, o, next, result, others) ==
    /\ calls' = Append(calls, Call("llm_calling", prompt, o))
    /\ IF o.raised
       THEN /\ Except(o.err)
            /\ UNCHANGED <<result, others>>
       ELSE IF o.isNone
       THEN /\ Except(<<"'NoneType' object has no attribute 'strip'">>)
            /\ UNCHANGED <<result, others>>
       ELSE /\ Goto(next)
            /\ result' = Strip(o.s)
            /\ UNCHANGED <<others, responses>>

\* Lines 82-88.
Structuring ==
    /\ pc = "CONTENT_SCRAPED"
    /\ \E o \in LlmOutcomes :
        LlmCalling(PromptStructuring(all_content), o, "STRUCTURED",
                   structured_info, <<relevant_info, finalized_output>>)
    /\ UNCHANGED <<event, website, links, idx, all_content>>

\* Lines 91-109.
Relevancy ==
    /\ pc = "STRUCTURED"
    /\ \E o \in LlmOutcomes :
        LlmCalling(PromptRelevancy(structured_info), o, "FILTERED_RELEVANT",
                   relevant_info, <<structured_info, finalized_output>>)
    /\ UNCHANGED <<event, website, links, idx, all_content>>

\* Lines 112-136.
Finalization ==
    /\ pc = "FILTERED_RELEVANT"
    /\ \E o \in LlmOutcomes :
        LlmCalling(PromptFinalized(relevant_info), o, "FINALIZED",
                   finalized_output, <<structured_info, relevant_info>>)
    /\ UNCHANGED <<event, website, links, idx, all_content>>

\* Lines 139-143.
Respond ==
    /\ pc = "FINALIZED"
    /\ Return("RESPONDED", SuccessResponse(finalized_output))
    /\ UNCHANGED <<event, locals, calls>>

Next ==
    \/ \E e \in Events : Invoke(e)
    \/ ParseRequest
    \/ ScrapeLinks
    \/ ScrapePage
    \/ ContentScraped
    \/ Structuring
    \/ Relevancy
    \/ Finalization
    \/ Respond

Spec == Init /\ [][Next]_vars

-----------------------------------------------------------------------------
(* Vocabulary of the properties.                                           *)

Terminal == {"REJECTED", "ERROR_RESPONDED", "RESPONDED"}

Passed(p) == \E n \in 1..Len(visited) : visited[n] = p

CallsOf(fn) == {n \in 1..Len(calls) : calls[n].fn = fn}
IsLlm(c) == c.fn = "llm_calling"
LlmCalls == SelectSeq(calls, IsLlm)
IsPage(c) == c.fn = "scrape_page_content"
PageCalls == SelectSeq(calls, IsPage)

\* The text of a JSON object with the single member key: "value".
SingleMemberText(key, value) ==
    <<Tok("{"), StrTok(key), Tok(":"), StrTok(value), Tok("}")>>

\* r is the response with this status whose body is {key: value}.
IsResponse(r, status, key, value) ==
    /\ r.statusCode = status
    /\ r.body = SingleMemberText(key, value)

\* The request body is text that parses to a JSON object.
BodyIsObject(e) ==
    LET b == EventBody(e)
    IN /\ ~b.isNone
       /\ JsonLoads(b.text).exc = ""
       /\ JsonLoads(b.text).val.kind = "dict"

\* ... in which 'website' is absent, null or the empty string.
WebsiteMissing(e) ==
    /\ BodyIsObject(e)
    /\ LET d == JsonLoads(EventBody(e).text).val
           w == DictGet(d.items, WebsiteKey)
       IN \/ WebsiteKey \notin Keys(d)
          \/ w = PyNone
          \/ w = PyStr(<<>>)

\* The request body is text that is not JSON.
Malformed(e) ==
    /\ e.hasBody
    /\ ~e.isNone
    /\ JsonLoads(e.text).exc # ""

\* C1: a request whose body is a JSON object without a usable 'website'
\* (absent, null, empty string) is answered 400 with exactly
\* {"error": "Missing 'website' in request body"}, straight from RECEIVED,
\* and no outbound call is ever made for it.
C1_MissingWebsiteRejected ==
    (pc # "IDLE" /\ WebsiteMissing(event)) =>
        /\ calls = <<>>
        /\ pc \in {"RECEIVED", "REJECTED"}
        /\ pc = "REJECTED" =>
              /\ Len(responses) = 1
              /\ IsResponse(responses[1], 400, <<"error">>, MissingWebsite)

C1_Witness ==
    /\ pc = "REJECTED"
    /\ event.hasBody
    /\ WebsiteMissing(event)
    /\ DictGet(JsonLoads(event.text).val.items, WebsiteKey) = PyStr(<<>>)

\* C2: once an outbound call has failed, the handler has answered 500 with
\* a body whose only member is 'error', holding the text of that failure;
\* neither 'structured_info' nor fetched content nor LLM output is in it.
C2_UpstreamFailureIs500 ==
    \A n \in 1..Len(calls) :
        calls[n].out.raised =>
            /\ pc = "ERROR_RESPONDED"
            /\ Len(responses) = 1
            /\ responses[1].statusCode = 500
            /\ LET b == JsonLoads(responses[1].body)
               IN /\ b.exc = ""
                  /\ b.val.kind = "dict"
                  /\ Len(b.val.items) = 1
                  /\ b.val.items[1].key = <<"error">>
                  /\ b.val.items[1].val = PyStr(calls[n].out.err)
                  /\ \A k \in 1..Len(b.val.items[1].val.v) :
                        b.val.items[1].val.v[k] # PageHeaderOpen

C2_Witness ==
    /\ pc = "ERROR_RESPONDED"
    /\ all_content # <<>>
    /\ structured_info # <<>>
    /\ Len(calls) >= 4
    /\ calls[Len(calls)].fn = "llm_calling"
    /\ calls[Len(calls)].out.raised

\* C3 as stated: a body that is not JSON is answered like a missing field,
\* 400 with {"error": "Missing 'website' in request body"}, without any
\* outbound call.
C3_MalformedIsMissingField ==
    (pc \in Terminal /\ Malformed(event)) =>
        /\ calls = <<>>
        /\ Len(responses) = 1
        /\ IsResponse(responses[1], 400, <<"error">>, MissingWebsite)

\* C3 amended: a body that is not JSON is answered straight from RECEIVED
\* with 500 and {"error": <text of the JSON decoding error>}, without any
\* outbound call.
C3_MalformedIsError ==
    (pc # "IDLE" /\ Malformed(event)) =>
        /\ calls = <<>>
        /\ pc \in {"RECEIVED", "ERROR_RESPONDED"}
        /\ pc = "ERROR_RESPONDED" =>
              /\ Len(responses) = 1
              /\ IsResponse(responses[1], 500, <<"error">>,
                            <<JsonLoads(event.text).exc>>)

C3_Witness ==
    /\ pc = "ERROR_RESPONDED"
    /\ Malformed(event)
    /\ event.text # <<>>

\* C4: an invocation returns one response, when it ends and not before;
\* its body is a JSON object with exactly one member, 'structured_info'
\* under status 200 or 'error' under status 400 or 500.
C4_OneResponseOneKey ==
    /\ Len(responses) = (IF pc \in Terminal THEN 1 ELSE 0)
    /\ \A n \in 1..Len(responses) :
        LET b == JsonLoads(responses[n].body)
        IN /\ b.exc = ""
           /\ b.val.kind = "dict"
           /\ Len(b.val.items) = 1
           /\ \/ /\ Keys(b.val) = {<<"structured_info">>}
                 /\ responses[n].statusCode = 200
              \/ /\ Keys(b.val) = {<<"error">>}
                 /\ responses[n].statusCode \in {400, 500}

C4_Witness ==
    /\ pc = "RESPONDED"
    /\ Len(responses) = 1
    /\ responses[1].statusCode = 200

\* link has root as a textual prefix: it is root followed by something.
HasPrefix(link, root) == \E k \in 0..Len(link) : SubSeq(link, 1, k) = root

\* C5: the filtered links are exactly the links returned by scrape_links
\* that have the root URL as a textual prefix, in their order and with
\* their multiplicity.
C5_FilterIsPrefixSubsequence ==
    (Passed("LINKS_SCRAPED") /\ website.kind = "str") =>
        LET raw == calls[1].out.links
            kept == {n \in 1..Len(raw) : HasPrefix(raw[n], website.v)}
            Nth(k) == CHOOSE n \in kept :
                          Cardinality({m \in kept : m <= n}) = k
        IN /\ Len(links) = Cardinality(kept)
           /\ \A k \in 1..Len(links) : links[k] = raw[Nth(k)]

C5_Witness ==
    /\ Passed("LINKS_SCRAPED")
    /\ website = PyStr(<<"a">>)
    /\ calls[1].out.links = <<(<<"a", "/", "x">>), (<<"b", "/", "x">>),
                             (<<"a", "/", "x">>)>>
    /\ Len(links) = 2

RECURSIVE Sections(_)
\* The sections of the first n filtered links, from what the scraping
\* service returned for each.
Sections(n) ==
    IF n = 0 THEN <<>>
    ELSE LET md == PageCalls[n].out
         IN Sections(n - 1)
            \o <<PageHeaderOpen>> \o links[n] \o <<PageHeaderClose>>
            \o (IF md.isNone THEN <<>> ELSE md.s)

\* C6: when every content scrape has succeeded, the aggregated content is
\* the concatenation in link order of one section per filtered link, the
\* header '\n\n--- Page: {link} ---\n' then the page's markdown, or nothing
\* for a null or empty markdown; it holds one header per filtered link.
C6_AggregationKeepsEveryHeader ==
    Passed("CONTENT_SCRAPED") =>
        /\ Len(PageCalls) = Len(links)
        /\ all_content = Sections(Len(links))
        /\ Cardinality({k \in 1..Len(all_content) :
                           all_content[k] = PageHeaderOpen}) = Len(links)

C6_Witness ==
    /\ pc = "CONTENT_SCRAPED"
    /\ Len(links) = 3
    /\ PageCalls[1].out.isNone
    /\ PageCalls[2].out.s # <<>>
    /\ ~PageCalls[3].out.isNone /\ PageCalls[3].out.s = <<>>

\* out is raw without its leading and trailing whitespace.
IsStripOf(out, raw) ==
    /\ out # <<>> => out[1] \notin Whitespace /\ out[Len(out)] \notin Whitespace
    /\ \E i \in 0..Len(raw), j \in 0..Len(raw) :
        /\ i + Len(out) + j = Len(raw)
        /\ SubSeq(raw, i + 1, i + Len(out)) = out
        /\ \A k \in (1..i) \cup ((Len(raw) - j + 1)..Len(raw)) :
              raw[k] \in Whitespace

\* C7: on a run that ends in the 200 response the LLM was called three
\* times, after all scraping: with the structuring prompt around the whole
\* aggregated content, then the relevancy prompt around the whole output
\* of the first call, then the finalization prompt around the whole output
\* of the second; 'structured_info' is the stripped output of the third.
C7_ThreePromptsChained ==
    pc = "RESPONDED" =>
        /\ Len(LlmCalls) = 3
        /\ \A n \in CallsOf("llm_calling") : n > Len(calls) - 3
        /\ LlmCalls[1].arg = <<StructuringTemplate>> \o all_content
        /\ IsStripOf(structured_info, LlmCalls[1].out.s)
        /\ LlmCalls[2].arg = <<RelevancyHead>> \o structured_info
                                \o <<RelevancyTail>>
        /\ IsStripOf(relevant_info, LlmCalls[2].out.s)
        /\ LlmCalls[3].arg = <<FinalizedHead>> \o relevant_info
                                \o <<FinalizedTail>>
        /\ IsStripOf(finalized_output, LlmCalls[3].out.s)
        /\ Len(responses) = 1
        /\ IsResponse(responses[1], 200, <<"structured_info">>,
                      finalized_output)

C7_Witness ==
    /\ pc = "RESPONDED"
    /\ Len(links) = 2
    /\ structured_info = <<"s", " ", "t">>
    /\ relevant_info = <<>>
    /\ LlmCalls[3].out.s = <<" ", "s", " ", "t", "\n">>
    /\ responses[1].body =
          SingleMemberText(<<"structured_info">>, <<"s", " ", "t">>)

\* C8: a failed content scrape is the last outbound call of the run: no
\* later link is scraped, no LLM call is made, and the answer is the 500
\* error response, with nothing of the pages fetched before it.
C8_FailedPageAbortsBatch ==
    \A n \in CallsOf("scrape_page_content") :
        calls[n].out.raised =>
            /\ n = Len(calls)
            /\ CallsOf("llm_calling") = {}
            /\ pc = "ERROR_RESPONDED"
            /\ Len(responses) = 1
            /\ IsResponse(responses[1], 500, <<"error">>, calls[n].out.err)

C8_Witness ==
    /\ Len(links) = 3
    /\ Len(calls) = 3
    /\ calls[3].fn = "scrape_page_content"
    /\ calls[3].out.raised
    /\ calls[2].out.s # <<>>
    /\ all_content # <<>>

StateOrder ==
    <<"RECEIVED", "VALIDATED", "LINKS_SCRAPED", "CONTENT_SCRAPED",
      "STRUCTURED", "FILTERED_RELEVANT", "FINALIZED", "RESPONDED">>

StageOf(fn) ==
    CASE fn = "scrape_links" -> 1
      [] fn = "scrape_page_content" -> 2
      [] OTHER -> 3

\* The request raises in RECEIVED: no body text, text that is not JSON, or
\* JSON that is not an object.
RaisesInReceived(e) == e.hasBody /\ ~BodyIsObject(e)

\* C9: the positions passed are a prefix of RECEIVED .. RESPONDED, possibly
\* ended by the 400 or the 500 response; link scrape, content scrapes and
\* LLM calls come in that order, each stage after the previous one has
\* returned in full; an exception, in RECEIVED too, leads at once to the
\* 500 response, and nothing is called after it.
C9_StrictlySequential ==
    /\ \A n \in 1..Len(visited) :
        \/ visited[n] = StateOrder[n]
        \/ n = Len(visited) /\ visited[n] \in {"REJECTED", "ERROR_RESPONDED"}
    /\ pc = (IF visited = <<>> THEN "IDLE" ELSE visited[Len(visited)])
    /\ \A m, n \in 1..Len(calls) :
        m < n => /\ StageOf(calls[m].fn) <= StageOf(calls[n].fn)
                 /\ ~calls[m].out.raised
                 /\ ~calls[m].out.isNone \/ calls[m].fn = "scrape_page_content"
    /\ CallsOf("scrape_page_content") # {} => Passed("LINKS_SCRAPED")
    /\ CallsOf("llm_calling") # {} =>
          /\ Passed("CONTENT_SCRAPED")
          /\ Len(PageCalls) = Len(links)
    /\ (\E n \in 1..Len(calls) : calls[n].out.raised) => pc = "ERROR_RESPONDED"
    /\ (pc \notin {"IDLE", "RECEIVED"} /\ RaisesInReceived(event)) =>
          /\ visited = <<"RECEIVED", "ERROR_RESPONDED">>
          /\ calls = <<>>
          /\ responses[1].statusCode = 500

C9_Witness ==
    /\ visited = StateOrder
    /\ Len(links) = 3
    /\ Len(calls) = 7

\* C10: nothing is called twice: one link scrape at most, the k-th content
\* scrape is for the k-th filtered link, the k-th LLM call carries the k-th
\* prompt; a run ending in the 200 response has called the scraping service
\* 1 + n times for n filtered links and the LLM 3 times, and with n = 0 the
\* structuring prompt carries empty content.
C10_NoCallRepeated ==
    /\ Cardinality(CallsOf("scrape_links")) <= 1
    /\ Len(PageCalls) <= Len(links)
    /\ \A k \in 1..Len(PageCalls) : PageCalls[k].arg = links[k]
    /\ Len(LlmCalls) <= 3
    /\ \A k \in 1..Len(LlmCalls) :
          LlmCalls[k].arg[1] =
              <<StructuringTemplate, RelevancyHead, FinalizedHead>>[k]
    /\ pc = "RESPONDED" =>
          /\ Cardinality(CallsOf("scrape_links")) = 1
          /\ Len(PageCalls) = Len(links)
          /\ Len(calls) - Len(LlmCalls) = 1 + Len(links)
          /\ Len(LlmCalls) = 3
          /\ links = <<>> => LlmCalls[1].arg = <<StructuringTemplate>>

C10_Witness ==
    /\ pc = "RESPONDED"
    /\ Len(links) = 3
    /\ links[1] = links[3]
    /\ links[1] # links[2]
    /\ Len(PageCalls) = 3

====
